---- MODULE Spec2Model ----
(***************************************************************************)
(* Model of the OneFlow -> Relay frontend, python/tvm/relay/frontend/      *)
(* oneflow.py: the module-level from_oneflow, the OneflowGraph constructor *)
(* (the pre-pass over the operators' input paths) and the phases of        *)
(* OneflowGraph.from_oneflow.                                              *)
(*                                                                         *)
(* Strings the code takes apart (lbn references "name/blob", node names)   *)
(* are drawn from a fixed universe; every substring test, replace and      *)
(* split of the code is modelled by its result on that universe.           *)
(* Relay expressions are records [k, name, id, args]; id is the creation   *)
(* number of the object, so record equality is object identity.            *)
(***************************************************************************)
EXTENDS Integers, Sequences, FiniteSets, TLC

\* Bound on the number of user_conf nodes of a graph.
MaxOps == 2

-----------------------------------------------------------------------------
(* Generic helpers *)

Range(s) == {s[i] : i \in 1..Len(s)}

\* Python dicts keep insertion order: keys is that order, val the mapping.
EmptyDict == [keys |-> <<>>, val |-> [x \in {} |-> 0]]

DictHas(d, k) == k \in Range(d.keys)

DictPut(d, k, v) ==
    [keys |-> IF DictHas(d, k) THEN d.keys ELSE Append(d.keys, k),
     val  |-> [x \in Range(d.keys) \cup {k} |-> IF x = k THEN v ELSE d.val[x]]]

\* Sequences over S without repetition, of length at most n.
RECURSIVE InjSeqs(_, _)
InjSeqs(S, n) ==
    IF n = 0 THEN {<<>>}
    ELSE LET shorter == InjSeqs(S, n - 1)
             longer  == {Append(s, x) : s \in shorter, x \in S}
         IN  shorter \cup {t \in longer : \A i, j \in 1..Len(t) : i # j => t[i] # t[j]}

-----------------------------------------------------------------------------
(* The string universe *)

\* An lbn reference "name/blob" as found in user_conf.input[..].s,
\* user_conf.output[..].s and output_conf.in.
Ref(n, b) == [n |-> n, b |-> b]

\* s.replace("m.", "") on the names of the universe.
StripM(n) ==
    CASE n = "m.w"         -> "w"
      [] n = "m.Input_0.w" -> "Input_0.w"
      [] OTHER             -> n

\* i.split("/")[0]
SplitName(ref) == ref.n

\* os.path.join(model_dir_path, i.replace("m.", ""))
PathOf(ref) == <<StripM(ref.n), ref.b>>

\* "0-input_0" in s
HasZeroInput0(n) == n \in {"_G0-input_0"}

\* "Input_0" in s   (case-sensitive: "_G0-input_0" does not contain it)
HasInput0(n) == n \in {"G0-Input_0", "m.Input_0.w", "Input_0.w"}

\* "0-output_0" in s
HasZeroOutput0(n) == n \in {"_G0-output_0", "_G0-output_0_1"}

\* The one-character strings k of `for k in names` that are names of the
\* universe (names is a str, so the loop runs over its characters).
CharsOf(n) == IF n \in {"w", "m.w", "m.Input_0.w", "Input_0.w"} THEN {"w"} ELSE {}

\* "_" + (o.replace("-" + op_name, "-output").split("_")[0] + "_0")
ShapeKeyOf(o, op_name) ==
    CASE o \in {"G0-relu_1", "G0-relu_2", "G0-relu_7"} ->
             IF op_name = "relu" THEN "_G0-output_0" ELSE "_G0-relu_0"
      [] o = "G0-Input_0"  -> "_G0-Input_0"
      [] o = "m.w"         -> "_m.w_0"
      [] o = "w"           -> "_w_0"
      [] o = "m.Input_0.w" -> "_m.Input_0"
      [] o \in {"_G0-input_0", "_G0-output_0", "_G0-output_0_1"} -> "__0"

-----------------------------------------------------------------------------
(* The inputs of a run: the graph, the checkpoint, the call's arguments *)

\* Layers of the checkpoint (oneflow.load); layer l is stored at "<dir>/l/out".
ParamLayers == {"w", "Input_0.w"}
ParamPath(l) == <<l, "out">>

Node(name, kind, op, ins, outs) ==
    [name |-> name, kind |-> kind, op |-> op, ins |-> ins, outs |-> outs]

InputNodes ==
    { <<>>,
      <<Node("_G0-input_0", "input_conf", "", <<>>, <<>>)>>,
      <<Node("_G0-input_0", "input_conf", "", <<>>, <<>>),
        Node("G0-Input_0", "input_conf", "", <<>>, <<>>)>> }

rIn  == Ref("_G0-input_0", "out")
rUin == Ref("G0-Input_0", "out")
rW   == Ref("m.w", "out")
rW2  == Ref("w", "out")
rWI  == Ref("m.Input_0.w", "out")
rY1  == Ref("G0-relu_1", "y")
rWb  == Ref("m.w", "out2")
rY2  == Ref("G0-relu_2", "y")
rZ   == Ref("G0-relu_7", "z")

OpPool ==
    { Node("G0-relu_1",   "user_conf", "relu",  <<rIn>>,          <<rY1>>),
      Node("G0-relu_2",   "user_conf", "relu",  <<rY1>>,          <<rY2>>),
      Node("G0-add_n_3",  "user_conf", "add_n", <<rY1, rW, rWI>>, <<rY2>>),
      Node("G0-relu_4",   "user_conf", "relu",  <<rW>>,           <<rY1>>),
      Node("G0-foo_5",    "user_conf", "foo",   <<rIn>>,          <<rY1>>),
      Node("G0-bar_6",    "user_conf", "bar",   <<rY1>>,          <<rY2>>),
      Node("G0-relu_7",   "user_conf", "relu",  <<rIn>>,          <<rY1, rZ>>),
      Node("G0-relu_8",   "user_conf", "relu",  <<rIn>>,          <<rY1, rY2>>),
      Node("G0-add_n_9",  "user_conf", "add_n", <<rUin, rW2>>,    <<rY1>>),
      Node("G0-relu_11",  "user_conf", "relu",  <<rIn>>,          <<rY2>>),
      Node("G0-add_n_12", "user_conf", "add_n", <<rW, rWb>>,      <<rY1>>),
      Node("G0-relu_13",  "user_conf", "relu",  <<rIn>>,          <<rWb>>) }

oY1 == Node("_G0-output_0",   "output_conf", "", <<rY1>>, <<>>)
oY2 == Node("_G0-output_0_1", "output_conf", "", <<rY2>>, <<>>)

OutputNodes == { <<>>, <<oY1>>, <<oY2>>, <<oY1, oY2>>, <<oY2, oY1>> }

\* graph_proto.net.op in order; node names are the keys of a dict, so unique.
Graphs == { i \o o \o u : i \in InputNodes, o \in InjSeqs(OpPool, MaxOps), u \in OutputNodes }

\* freeze_params and user_input (the keys of the dict, in order) of the call.
RunOpts ==
    { [freeze_params |-> TRUE,  given |-> FALSE, user_input |-> <<>>],
      [freeze_params |-> FALSE, given |-> FALSE, user_input |-> <<>>],
      [freeze_params |-> FALSE, given |-> TRUE,  user_input |-> <<"G0-Input_0">>],
      [freeze_params |-> FALSE, given |-> TRUE,  user_input |-> <<"G0-Input_0", "conv1-in">>] }

\* Keys of the shape/dtype dicts built from repr(graph): the INPUT, PARAMETER,
\* BUFFER and OUTPUT lines.
ShapeInit(g) ==
    {g[i].name : i \in {j \in 1..Len(g) : g[j].kind \in {"input_conf", "output_conf"}}}
    \cup {"m." \o l : l \in ParamLayers}

is_input_op(node)  == node.kind = "input_conf"
is_user_op(node)   == node.kind = "user_conf"
is_output_op(node) == node.kind = "output_conf"
\* Variant: a user op is taken for a parameter as well.
is_param_op_AlsoUser(node) == node.kind \in {"variable_conf", "user_conf"}
is_param_op(node)  == node.kind = "variable_conf"

-----------------------------------------------------------------------------
(* Relay expressions *)

Var(n, id)        == [k |-> "var",   name |-> n,  id |-> id, args |-> <<>>]
Call(op, id, as)  == [k |-> "call",  name |-> op, id |-> id, args |-> as]
Tuple(id, fields) == [k |-> "tuple", name |-> "", id |-> id, args |-> fields]

NoErr == [kind |-> "", names |-> {}]
Err(kind, names) == [kind |-> kind, names |-> names]

\* get_convert_map(): the op-type names of the universe that it maps.
convert_map == {"relu", "add_n", "dropout"}
_identity_list == {}

-----------------------------------------------------------------------------
VARIABLES
    nodes,               \* the graph: graph_proto.net.op, in order
    opts,                \* freeze_params / user_input of the call
    pc,                  \* position in the run
    idx,                 \* index of the node (or user input) the current loop is at
    _nodes,              \* self._nodes: name -> Relay expression
    _params,             \* keys of self._params
    _inputs,             \* self._inputs: name -> Relay expression
    _shape,              \* keys of self._shape (and self._dtype)
    _input_path_2_name,  \* self._input_path_2_name
    _output_path_2_name, \* self._output_path_2_name
    nid,                 \* number of Relay objects created so far
    unsupported_ops,     \* the set built by step 2
    outputs,             \* the output expression of step 4
    free_vars,           \* the names computed by step 5
    func,                \* the names of the parameters of the assembled function
    err,                 \* the exception that ended the run
    warned,              \* paths for which warnings.warn was called
    calls,               \* nodes for which _convert_operator was called, in order
    call,                \* a direct call of a module-level helper: its name and arguments
    ret                  \* what that call returned

\* The variables of a run of from_oneflow.
gvars == <<nodes, opts, pc, idx, _nodes, _params, _inputs, _shape,
           _input_path_2_name, _output_path_2_name, nid, unsupported_ops,
           outputs, free_vars, func, err, warned, calls>>

vars == <<gvars, call, ret>>

NoCall == [fn |-> ""]
NoRet  == [kind |-> "none"]

NoValue == [k |-> "none", name |-> "", id |-> 0, args |-> <<>>]

Init ==
    /\ nodes \in Graphs
    /\ opts \in RunOpts
    /\ pc = "entry"
    /\ idx = 1
    /\ _nodes = EmptyDict
    /\ _params = {}
    /\ _inputs = EmptyDict
    /\ _shape = ShapeInit(nodes)
    /\ _input_path_2_name = [p \in {} |-> ""]
    /\ _output_path_2_name = [p \in {} |-> ""]
    /\ nid = 0
    /\ unsupported_ops = {}
    /\ outputs = NoValue
    /\ free_vars = <<>>
    /\ func = <<>>
    /\ err = NoErr
    /\ warned = {}
    /\ calls = <<>>
    /\ call = NoCall
    /\ ret = NoRet

Fail(e) == pc' = "failed" /\ err' = e

-----------------------------------------------------------------------------
(* from_oneflow (module level): the argument check, the INPUT line of
   repr(graph), then the constructor *)

\* The runs of the universe have 'snapshot_done' in the checkpoint directory
\* and a compiled graph, and none passes user_input together with
\* freeze_params, so the IndexError of line 1578, the warning of line 1587
\* and graph._compile do not occur.
\* re.search("INPUT:.*", graph_str): repr(graph) has an INPUT line for each
\* input_conf node of the graph.
HasInputLine(g) == \E i \in 1..Len(g) : g[i].kind = "input_conf"

Entry ==
    /\ pc = "entry"
    /\ UNCHANGED <<call, ret>>
    /\ IF ~opts.freeze_params /\ ~opts.given
       THEN Fail(Err("ValueError", {}))
       ELSE IF ~HasInputLine(nodes)
       THEN Fail(Err("AttributeError", {}))
       ELSE pc' = "ctor" /\ err' = err
    /\ UNCHANGED <<nodes, opts, idx, _nodes, _params, _inputs, _shape,
                   _input_path_2_name, _output_path_2_name, nid, unsupported_ops,
                   outputs, free_vars, func, warned, calls>>

\* OneflowGraph.__init__, one reference of a user_conf node: the path -> name
\* entry is (over)written; a path that is a checkpoint layer's binds a new var.
CtorRef(st, ref) ==
    LET p == PathOf(ref)
        n == SplitName(ref)
        tab == [q \in DOMAIN st.ip2n \cup {p} |-> IF q = p THEN n ELSE st.ip2n[q]]
    IN  IF \E l \in ParamLayers : ParamPath(l) = p
        THEN [ip2n |-> tab, params |-> st.params \cup {n},
              nodes |-> DictPut(st.nodes, n, Var(n, st.nid + 1)), nid |-> st.nid + 1]
        ELSE [st EXCEPT !.ip2n = tab]

RECURSIVE CtorRefs(_, _, _)
CtorRefs(st, refs, i) ==
    IF i > Len(refs) THEN st ELSE CtorRefs(CtorRef(st, refs[i]), refs, i + 1)

\* OneflowGraph.__init__, one iteration of `for node_name in nodes`.
Ctor ==
    /\ pc = "ctor"
    /\ UNCHANGED <<call, ret>>
    /\ idx <= Len(nodes)
    /\ LET node == nodes[idx] IN
       IF is_user_op(node) THEN
           LET st == CtorRefs([ip2n |-> _input_path_2_name, params |-> _params,
                               nodes |-> _nodes, nid |-> nid], node.ins, 1)
           IN  /\ _input_path_2_name' = st.ip2n
               /\ _params' = st.params
               /\ _nodes' = st.nodes
               /\ nid' = st.nid
               /\ UNCHANGED _output_path_2_name
       ELSE IF is_output_op(node) THEN
           LET p == PathOf(node.ins[1]) IN
           /\ _output_path_2_name' =
                  [q \in DOMAIN _output_path_2_name \cup {p} |->
                      IF q = p THEN node.name ELSE _output_path_2_name[q]]
           /\ UNCHANGED <<_input_path_2_name, _params, _nodes, nid>>
       ELSE UNCHANGED <<_input_path_2_name, _output_path_2_name, _params, _nodes, nid>>
    /\ idx' = idx + 1
    /\ UNCHANGED <<nodes, opts, pc, _inputs, _shape, unsupported_ops,
                   outputs, free_vars, func, err, warned, calls>>

CtorDone ==
    /\ pc = "ctor"
    /\ UNCHANGED <<call, ret>>
    /\ idx > Len(nodes)
    /\ pc' = "step1"
    /\ idx' = 1
    /\ UNCHANGED <<nodes, opts, _nodes, _params, _inputs, _shape,
                   _input_path_2_name, _output_path_2_name, nid, unsupported_ops,
                   outputs, free_vars, func, err, warned, calls>>

-----------------------------------------------------------------------------
(* OneflowGraph.from_oneflow, step 1: the graph input given by the user *)

\* Variant: a name without 'Input_0' is passed over instead of raising.
Step1_SkipBad ==
    /\ pc = "step1"
    /\ UNCHANGED <<call, ret>>
    /\ ~opts.freeze_params
    /\ idx <= Len(opts.user_input)
    /\ LET n == opts.user_input[idx] IN
       IF ~HasInput0(n)
       THEN UNCHANGED <<_nodes, _inputs, nid>>
       ELSE LET v == Var(n, nid + 1) IN
            /\ _nodes' = DictPut(_nodes, n, v)
            /\ _inputs' = DictPut(_inputs, n, v)
            /\ nid' = nid + 1
    /\ idx' = idx + 1
    /\ UNCHANGED <<nodes, opts, pc, err, _params, _shape, _input_path_2_name,
                   _output_path_2_name, unsupported_ops, outputs, free_vars,
                   func, warned, calls>>

Step1 ==
    /\ pc = "step1"
    /\ UNCHANGED <<call, ret>>
    /\ ~opts.freeze_params
    /\ idx <= Len(opts.user_input)
    /\ LET n == opts.user_input[idx] IN
       IF ~HasInput0(n)
       THEN /\ Fail(Err("KeyError", {"user_input"}))
            /\ UNCHANGED <<idx, _nodes, _inputs, nid>>
       ELSE LET v == Var(n, nid + 1) IN
            /\ _nodes' = DictPut(_nodes, n, v)
            /\ _inputs' = DictPut(_inputs, n, v)
            /\ nid' = nid + 1
            /\ idx' = idx + 1
            /\ UNCHANGED <<pc, err>>
    /\ UNCHANGED <<nodes, opts, _params, _shape, _input_path_2_name,
                   _output_path_2_name, unsupported_ops, outputs, free_vars,
                   func, warned, calls>>

Step1Done ==
    /\ pc = "step1"
    /\ UNCHANGED <<call, ret>>
    /\ opts.freeze_params \/ idx > Len(opts.user_input)
    /\ pc' = "step2"
    /\ idx' = 1
    /\ UNCHANGED <<nodes, opts, _nodes, _params, _inputs, _shape,
                   _input_path_2_name, _output_path_2_name, nid, unsupported_ops,
                   outputs, free_vars, func, err, warned, calls>>

-----------------------------------------------------------------------------
(* step 2: find out if unsupported ops are used *)

\* Variant: only the first unsupported name met is recorded.
Step2Scan_FirstOnly ==
    /\ pc = "step2"
    /\ UNCHANGED <<call, ret>>
    /\ idx <= Len(nodes)
    /\ LET node == nodes[idx] IN
       unsupported_ops' =
           IF /\ is_user_op(node) /\ node.op \notin convert_map /\ node.op \notin _identity_list
              /\ unsupported_ops = {}
           THEN {node.op}
           ELSE unsupported_ops
    /\ idx' = idx + 1
    /\ UNCHANGED <<nodes, opts, pc, _nodes, _params, _inputs, _shape,
                   _input_path_2_name, _output_path_2_name, nid,
                   outputs, free_vars, func, err, warned, calls>>

Step2Scan ==
    /\ pc = "step2"
    /\ UNCHANGED <<call, ret>>
    /\ idx <= Len(nodes)
    /\ LET node == nodes[idx] IN
       unsupported_ops' =
           IF is_user_op(node) /\ node.op \notin convert_map /\ node.op \notin _identity_list
           THEN unsupported_ops \cup {node.op}
           ELSE unsupported_ops
    /\ idx' = idx + 1
    /\ UNCHANGED <<nodes, opts, pc, _nodes, _params, _inputs, _shape,
                   _input_path_2_name, _output_path_2_name, nid,
                   outputs, free_vars, func, err, warned, calls>>

\* Variant: the run goes on to step 3 whatever the scan found.
Step2Check_NoRaise ==
    /\ pc = "step2"
    /\ UNCHANGED <<call, ret>>
    /\ idx > Len(nodes)
    /\ pc' = "step3" /\ idx' = 1 /\ err' = err
    /\ UNCHANGED <<nodes, opts, _nodes, _params, _inputs, _shape,
                   _input_path_2_name, _output_path_2_name, nid, unsupported_ops,
                   outputs, free_vars, func, warned, calls>>

\* Variant: the run is rejected only when two or more names were collected.
Step2Check_OnlyMany ==
    /\ pc = "step2"
    /\ UNCHANGED <<call, ret>>
    /\ idx > Len(nodes)
    /\ IF Cardinality(unsupported_ops) >= 2
       THEN Fail(Err("OpNotImplemented", unsupported_ops)) /\ idx' = idx
       ELSE pc' = "step3" /\ idx' = 1 /\ err' = err
    /\ UNCHANGED <<nodes, opts, _nodes, _params, _inputs, _shape,
                   _input_path_2_name, _output_path_2_name, nid, unsupported_ops,
                   outputs, free_vars, func, warned, calls>>

Step2Check ==
    /\ pc = "step2"
    /\ UNCHANGED <<call, ret>>
    /\ idx > Len(nodes)
    /\ IF unsupported_ops # {}
       THEN Fail(Err("OpNotImplemented", unsupported_ops)) /\ idx' = idx
       ELSE pc' = "step3" /\ idx' = 1 /\ err' = err
    /\ UNCHANGED <<nodes, opts, _nodes, _params, _inputs, _shape,
                   _input_path_2_name, _output_path_2_name, nid, unsupported_ops,
                   outputs, free_vars, func, warned, calls>>

-----------------------------------------------------------------------------
(* step 3: convert op *)

\* OneflowGraph._parse_input, one reference.  st = [nodes, nid, err].
ParseInputRef(st, ref) ==
    LET node_input == SplitName(ref)
        node_path  == PathOf(ref)
    IN  IF st.err.kind # "" THEN st
        ELSE IF node_input \notin _shape
        THEN [st EXCEPT !.err = Err("KeyError", {node_input})]
        ELSE IF DictHas(st.nodes, node_input) THEN st
        ELSE IF node_path \notin DOMAIN _input_path_2_name \/ HasZeroInput0(node_input)
        THEN [st EXCEPT !.nodes = DictPut(st.nodes, node_input, Var(node_input, st.nid + 1)),
                        !.nid = st.nid + 1]
        ELSE IF \E k \in CharsOf(_input_path_2_name[node_path]) : DictHas(st.nodes, k)
        THEN [st EXCEPT !.err = Err("NameError", {"node_name"})]
        ELSE [st EXCEPT !.err = Err("TypeError", {})]

RECURSIVE _parse_input(_, _, _)
_parse_input(st, refs, i) ==
    IF i > Len(refs) THEN st ELSE _parse_input(ParseInputRef(st, refs[i]), refs, i + 1)

\* class oneflow_input: __setitem__ with a str key, __getitem__ with an int,
\* __len__, and the values in iteration order.
oneflow_input == [input_keys |-> <<>>, input_dict |-> [x \in {} |-> 0]]

\* Variant: a key already present is not appended again.
InputSet_Dedup(ni, item, value) ==
    [input_keys |-> IF item \in Range(ni.input_keys) THEN ni.input_keys
                    ELSE Append(ni.input_keys, item),
     input_dict |-> [x \in DOMAIN ni.input_dict \cup {item} |->
                        IF x = item THEN value ELSE ni.input_dict[x]]]

InputSet(ni, item, value) ==
    [input_keys |-> Append(ni.input_keys, item),
     input_dict |-> [x \in DOMAIN ni.input_dict \cup {item} |->
                        IF x = item THEN value ELSE ni.input_dict[x]]]

InputLen(ni) == Len(ni.input_keys)

InputValues(ni) == [i \in 1..Len(ni.input_keys) |-> ni.input_dict[ni.input_keys[i]]]

\* The loop that fills node_inputs from the node's references.
RECURSIVE CollectInputs(_, _, _, _)
CollectInputs(ni, table, refs, i) ==
    IF i > Len(refs) THEN ni
    ELSE CollectInputs(InputSet(ni, SplitName(refs[i]), table.val[SplitName(refs[i])]),
                       table, refs, i + 1)

\* The loop that fills node_outputs: the name the path is known under, the
\* consumers' table first; an unknown path is warned about and left out.
\* Variant: the graph-output table is looked up before the consumers' table.
RECURSIVE CollectOutputs_OutputFirst(_, _, _)
CollectOutputs_OutputFirst(acc, refs, i) ==
    IF i > Len(refs) THEN acc
    ELSE LET p == PathOf(refs[i]) IN
         CollectOutputs_OutputFirst(
             IF p \in DOMAIN _output_path_2_name
             THEN [acc EXCEPT !.names = Append(@, _output_path_2_name[p])]
             ELSE IF p \in DOMAIN _input_path_2_name
             THEN [acc EXCEPT !.names = Append(@, _input_path_2_name[p])]
             ELSE [acc EXCEPT !.warned = @ \cup {p}],
             refs, i + 1)

RECURSIVE CollectOutputs(_, _, _)
CollectOutputs(acc, refs, i) ==
    IF i > Len(refs) THEN acc
    ELSE LET p == PathOf(refs[i]) IN
         CollectOutputs(
             IF p \in DOMAIN _input_path_2_name
             THEN [acc EXCEPT !.names = Append(@, _input_path_2_name[p])]
             ELSE IF p \in DOMAIN _output_path_2_name
             THEN [acc EXCEPT !.names = Append(@, _output_path_2_name[p])]
             ELSE [acc EXCEPT !.warned = @ \cup {p}],
             refs, i + 1)

\* OneflowGraph._parse_output: the shape of every output not named like the
\* graph's output is copied from a derived key; `output` (sic) is undefined.
RECURSIVE ParseOutputLoop(_, _, _, _)
ParseOutputLoop(st, op_name, outs, i) ==
    IF i > Len(outs) \/ st.err.kind # "" THEN st
    ELSE LET o == outs[i] IN
         ParseOutputLoop(
             IF HasZeroOutput0(o) THEN st
             ELSE IF ShapeKeyOf(o, op_name) \notin st.shape
             THEN [st EXCEPT !.err = Err("KeyError", {ShapeKeyOf(o, op_name)})]
             ELSE [st EXCEPT !.shape = @ \cup {o}],
             op_name, outs, i + 1)

_parse_output(op_name, outs, shape) ==
    LET st == ParseOutputLoop([shape |-> shape, err |-> NoErr, outs |-> outs], op_name, outs, 1)
    IN  IF st.err.kind = "" /\ op_name = "dropout"
        THEN [st EXCEPT !.err = Err("NameError", {"output"})]
        ELSE st

\* AddN._impl_v1: res = inputs[0]; for each in inputs[1:]: res = add(res, each)
RECURSIVE AddNFold(_, _, _, _)
AddNFold(res, vals, i, id) ==
    IF i > Len(vals) THEN [val |-> res, nid |-> id, err |-> NoErr]
    ELSE AddNFold(Call("add", id + 1, <<res, vals[i]>>), vals, i + 1, id + 1)

\* Dropout._impl_v1 returns the AttrCvt object it builds, not applied to the
\* inputs: a value that is no Relay expression.
AttrCvt(op_name) == [k |-> "other", name |-> op_name, id |-> 0, args |-> <<>>]

\* OneflowGraph._convert_operator with the converters of the universe.
_convert_operator(op_name, node_inputs, id) ==
    LET vals == InputValues(node_inputs) IN
    IF op_name \in _identity_list
    THEN [val |-> Call(op_name, id + 1, vals), nid |-> id + 1, err |-> NoErr]
    ELSE IF op_name \in convert_map
    THEN CASE op_name = "relu" ->
                IF InputLen(node_inputs) = 1
                THEN [val |-> Call("relu", id + 1, vals), nid |-> id + 1, err |-> NoErr]
                ELSE [val |-> NoValue, nid |-> id, err |-> Err("TypeError", {"relu"})]
           [] op_name = "add_n" ->
                IF InputLen(node_inputs) > 0
                THEN AddNFold(vals[1], vals, 2, id)
                ELSE [val |-> NoValue, nid |-> id, err |-> Err("AssertionError", {"add_n"})]
           [] op_name = "dropout" ->
                [val |-> AttrCvt("dropout"), nid |-> id, err |-> NoErr]
    ELSE [val |-> NoValue, nid |-> id, err |-> Err("NotImplementedError", {op_name})]

\* fold_constant: a call all of whose arguments are constants is replaced by
\* a constant, innermost first; variables and what holds one are left as
\* they are.
RECURSIVE fold_constant(_)
fold_constant(e) ==
    IF e.k \notin {"call", "tuple"} THEN e
    ELSE LET as == [i \in 1..Len(e.args) |-> fold_constant(e.args[i])] IN
         IF e.k = "call" /\ Len(as) > 0 /\ \A i \in 1..Len(as) : as[i].k = "const"
         THEN [k |-> "const", name |-> "", id |-> e.id, args |-> <<>>]
         ELSE [e EXCEPT !.args = as]

\* outputs_num: 1 unless the converter returned a TupleWrapper.
OutputsNum(op) == IF op.k = "tuple" THEN Len(op.args) ELSE 1

\* The loop that records the outputs: self._nodes[node_outputs[i]] = op_temp[i],
\* op_temp = [op].
RECURSIVE RecordOutputs(_, _, _, _)
RecordOutputs(table, names, op_temp, i) ==
    IF i > Len(names) THEN [nodes |-> table, err |-> NoErr]
    ELSE IF i > Len(op_temp) THEN [nodes |-> table, err |-> Err("IndexError", {})]
    ELSE RecordOutputs(DictPut(table, names[i], op_temp[i]), names, op_temp, i + 1)

\* A node of the step 3 loop that is not converted: not a user op, or named
\* like a graph input.
Step3Skip ==
    /\ pc = "step3"
    /\ UNCHANGED <<call, ret>>
    /\ idx <= Len(nodes)
    /\ ~is_user_op(nodes[idx]) \/ DictHas(_inputs, nodes[idx].name)
    /\ idx' = idx + 1
    /\ UNCHANGED <<nodes, opts, pc, _nodes, _params, _inputs, _shape,
                   _input_path_2_name, _output_path_2_name, nid, unsupported_ops,
                   outputs, free_vars, func, err, warned, calls>>

\* One iteration of the step 3 loop for a user op, whole.  The converter's
\* result goes through fold_constant before it is recorded; infer_shape is
\* only printed.
Step3Convert ==
    /\ pc = "step3"
    /\ UNCHANGED <<call, ret>>
    /\ idx <= Len(nodes)
    /\ is_user_op(nodes[idx]) /\ ~DictHas(_inputs, nodes[idx].name)
    /\ LET node == nodes[idx]
           pin  == _parse_input([nodes |-> _nodes, nid |-> nid, err |-> NoErr], node.ins, 1)
       IN  IF pin.err.kind # ""
           THEN /\ Fail(pin.err)
                /\ _nodes' = pin.nodes /\ nid' = pin.nid
                /\ UNCHANGED <<idx, _shape, warned, calls>>
           ELSE
           LET node_inputs == CollectInputs(oneflow_input, pin.nodes, node.ins, 1)
               co   == CollectOutputs([names |-> <<>>, warned |-> warned], node.outs, 1)
               pout == _parse_output(node.op, co.names, _shape)
           IN  IF pout.err.kind # ""
               THEN /\ Fail(pout.err)
                    /\ _nodes' = pin.nodes /\ nid' = pin.nid
                    /\ _shape' = pout.shape /\ warned' = co.warned
                    /\ UNCHANGED <<idx, calls>>
               ELSE
               LET conv == _convert_operator(node.op, node_inputs, pin.nid)
                   outputs_num == OutputsNum(conv.val)
               IN  IF conv.err.kind # ""
                   THEN /\ Fail(conv.err)
                        /\ _nodes' = pin.nodes /\ nid' = conv.nid
                        /\ _shape' = pout.shape /\ warned' = co.warned
                        /\ calls' = Append(calls, node.name)
                        /\ UNCHANGED idx
                   ELSE IF Len(pout.outs) # outputs_num
                   THEN /\ Fail(Err("AssertionError", {node.op}))
                        /\ _nodes' = pin.nodes /\ nid' = conv.nid
                        /\ _shape' = pout.shape /\ warned' = co.warned
                        /\ calls' = Append(calls, node.name)
                        /\ UNCHANGED idx
                   ELSE
                   LET rec == RecordOutputs(pin.nodes, pout.outs,
                                            <<fold_constant(conv.val)>>, 1) IN
                        /\ IF rec.err.kind # "" THEN Fail(rec.err) /\ idx' = idx
                           ELSE idx' = idx + 1 /\ UNCHANGED <<pc, err>>
                        /\ _nodes' = rec.nodes /\ nid' = conv.nid
                        /\ _shape' = pout.shape /\ warned' = co.warned
                        /\ calls' = Append(calls, node.name)
    /\ UNCHANGED <<nodes, opts, _params, _inputs, _input_path_2_name,
                   _output_path_2_name, unsupported_ops, outputs, free_vars, func>>

-----------------------------------------------------------------------------
(* steps 4 to 7: the outputs, the free variables, the function *)

\* Variant: each value found is put in front of those found before.
RECURSIVE GraphOutputs_Reversed(_, _)
GraphOutputs_Reversed(acc, i) ==
    IF i > Len(nodes) THEN acc
    ELSE GraphOutputs_Reversed(IF is_output_op(nodes[i]) /\ DictHas(_nodes, nodes[i].name)
                               THEN <<_nodes.val[nodes[i].name]>> \o acc ELSE acc, i + 1)

RECURSIVE GraphOutputs(_, _)
GraphOutputs(acc, i) ==
    IF i > Len(nodes) THEN acc
    ELSE GraphOutputs(IF is_output_op(nodes[i]) /\ DictHas(_nodes, nodes[i].name)
                      THEN Append(acc, _nodes.val[nodes[i].name]) ELSE acc, i + 1)

Step4 ==
    /\ pc = "step3"
    /\ UNCHANGED <<call, ret>>
    /\ idx > Len(nodes)
    /\ LET outs == GraphOutputs(<<>>, 1) IN
       IF Len(outs) = 1
       THEN outputs' = outs[1] /\ nid' = nid
       ELSE outputs' = Tuple(nid + 1, outs) /\ nid' = nid + 1
    /\ pc' = "step5"
    /\ UNCHANGED <<nodes, opts, idx, _nodes, _params, _inputs, _shape,
                   _input_path_2_name, _output_path_2_name, unsupported_ops,
                   free_vars, func, err, warned, calls>>

\* analysis.free_vars: the variables of the expression, each once, in the
\* order a left-to-right depth-first walk first meets them.
RECURSIVE FreeVarsAcc(_, _), FreeVarsArgs(_, _, _)
FreeVarsAcc(e, acc) ==
    IF e.k = "var" THEN (IF e \in Range(acc) THEN acc ELSE Append(acc, e))
    ELSE FreeVarsArgs(e.args, 1, acc)
FreeVarsArgs(as, i, acc) ==
    IF i > Len(as) THEN acc ELSE FreeVarsArgs(as, i + 1, FreeVarsAcc(as[i], acc))

FreeVars(e) == FreeVarsAcc(e, <<>>)

\* {v: k for k, v in self._nodes.items()}: the last key holding the value.
HasKeyFor(v) == \E i \in 1..Len(_nodes.keys) : _nodes.val[_nodes.keys[i]] = v
KeyFor(v) ==
    LET last == CHOOSE i \in 1..Len(_nodes.keys) :
                    /\ _nodes.val[_nodes.keys[i]] = v
                    /\ \A j \in (i + 1)..Len(_nodes.keys) : _nodes.val[_nodes.keys[j]] # v
    IN  _nodes.keys[last]

Step5 ==
    /\ pc = "step5"
    /\ UNCHANGED <<call, ret>>
    /\ LET fv == FreeVars(outputs) IN
       IF \E i \in 1..Len(fv) : ~HasKeyFor(fv[i])
       THEN Fail(Err("KeyError", {"free_var"})) /\ UNCHANGED free_vars
       ELSE /\ free_vars' = [i \in 1..Len(fv) |-> KeyFor(fv[i])]
            /\ pc' = "step6" /\ err' = err
    /\ UNCHANGED <<nodes, opts, idx, _nodes, _params, _inputs, _shape,
                   _input_path_2_name, _output_path_2_name, nid, unsupported_ops,
                   outputs, func, warned, calls>>

\* Variant: only the first free variable is added to the inputs.
AddFreeVars_FirstOnly(ins, i) ==
    IF i > Len(free_vars) \/ DictHas(ins, free_vars[i]) THEN ins
    ELSE DictPut(ins, free_vars[i], _nodes.val[free_vars[i]])

RECURSIVE AddFreeVars(_, _)
AddFreeVars(ins, i) ==
    IF i > Len(free_vars) THEN ins
    ELSE AddFreeVars(IF DictHas(ins, free_vars[i]) THEN ins
                     ELSE DictPut(ins, free_vars[i], _nodes.val[free_vars[i]]), i + 1)

\* The first name after position 0 that contains 'Input_0' is moved to the front.
SortInputs(input_names) ==
    LET cand == {i \in 2..Len(input_names) : HasInput0(input_names[i])} IN
    IF cand = {} THEN input_names
    ELSE LET i == CHOOSE c \in cand : \A d \in cand : c <= d IN
         <<input_names[i]>> \o SubSeq(input_names, 1, i - 1)
                            \o SubSeq(input_names, i + 1, Len(input_names))

Step6 ==
    /\ pc = "step6"
    /\ UNCHANGED <<call, ret>>
    /\ _inputs' = AddFreeVars(_inputs, 1)
    /\ func' = SortInputs(_inputs'.keys)
    /\ pc' = "done"
    /\ UNCHANGED <<nodes, opts, idx, _nodes, _params, _shape,
                   _input_path_2_name, _output_path_2_name, nid, unsupported_ops,
                   outputs, free_vars, err, warned, calls>>

Next ==
    \/ Entry \/ Ctor \/ CtorDone
    \/ Step1 \/ Step1Done
    \/ Step2Scan \/ Step2Check
    \/ Step3Skip \/ Step3Convert
    \/ Step4 \/ Step5 \/ Step6

Spec == Init /\ [][Next]_vars

-----------------------------------------------------------------------------
(* The module-level helpers, called directly *)

MaxExtent == 3   \* extents, kernel sizes and strides range over 1..MaxExtent
MaxAttrs  == 2   \* entries of an attribute map
MaxWrites == 3   \* writes made to one oneflow_input container

Max(a, b) == IF a >= b THEN a ELSE b

\* Mode strings, as a caller may spell them.
PadModes == {"SAME_UPPER", "SAME_LOWER", "VALID", "same_upper", "same_lower", "valid", "NOTSET"}

\* str.upper() on the mode strings.
Upper(mode) ==
    CASE mode \in {"SAME_UPPER", "same_upper"} -> "SAME_UPPER"
      [] mode \in {"SAME_LOWER", "same_lower"} -> "SAME_LOWER"
      [] mode \in {"VALID", "valid"}           -> "VALID"
      [] OTHER                                 -> mode

\* "LOWER" in mode
HasLOWER(mode) == mode \in {"SAME_LOWER"}

\* Variant: the remainder of the input extent is not looked at.
get_pad_pair_NoRemainder(input1d, kernel1d, stride1d, mode) ==
    LET pad == Max(kernel1d - stride1d, 0)
        pad_before == pad \div 2
        pad_after  == pad - pad_before
    IN  IF HasLOWER(mode) THEN <<pad_after, pad_before>> ELSE <<pad_before, pad_after>>

get_pad_pair(input1d, kernel1d, stride1d, mode) ==
    LET pad == IF input1d % stride1d = 0
               THEN Max(kernel1d - stride1d, 0)
               ELSE Max(kernel1d - (input1d % stride1d), 0)
        pad_before == pad \div 2
        pad_after  == pad - pad_before
    IN  IF HasLOWER(mode) THEN <<pad_after, pad_before>> ELSE <<pad_before, pad_after>>

\* autopad, for one spatial axis: the (before, after) row of the pad constant
\* handed to nn.pad.
autopad(shape, stride, kernel, dilation, deconv, mode) ==
    LET m == Upper(mode)
        dilated_kernel_shape == (kernel - 1) * dilation + 1
        mod   == shape % stride
        left  == Max(dilated_kernel_shape - stride, 0)
        right == Max(dilated_kernel_shape - mod, 0)
        tp    == IF mod = 0 THEN left ELSE right
        total_pad  == IF deconv THEN kernel - 1 - tp ELSE tp
        pad_before == total_pad \div 2
        pad_after  == total_pad - pad_before
    IN  IF HasLOWER(m) THEN <<pad_after, pad_before>> ELSE <<pad_before, pad_after>>

\* The oneof fields of an attribute value that occur in the universe, and the
\* value each entry of the universe carries.
AttrTags ==
    {"at_bool", "at_int32", "at_int64", "at_float", "at_double", "at_string", "at_shape",
     "at_list_float", "at_list_int32", "at_list_int64",
     "at_data_type", "at_list_data_type", "at_list_shape", "at_list_string"}

AttrKeys == {"k1", "k2", "k3"}

\* Fields that are messages print as `tag {`, scalar fields as `tag: value`.
IsMessage(tag) ==
    tag \in {"at_shape", "at_list_float", "at_list_int32", "at_list_int64",
             "at_list_data_type", "at_list_shape", "at_list_string"}

AttrVal(tag) ==
    CASE tag = "at_bool"   -> <<"bool", 1>>
      [] tag = "at_string" -> <<"str", 1>>
      [] tag = "at_shape"  -> <<"dim", 2, 3>>
      [] IsMessage(tag)    -> <<"val", 1, 2>>
      [] OTHER             -> <<"num", 1>>

\* The three probes parse_attr makes of attr_str = str(attr[a]).
First7IsAtList(tag) ==
    tag \in {"at_list_float", "at_list_int32", "at_list_int64",
             "at_list_data_type", "at_list_shape", "at_list_string"}
SplitSpace0(tag) == IF IsMessage(tag) THEN <<tag>> ELSE <<tag, ":">>
SplitColon0(tag) == IF IsMessage(tag) THEN <<tag, " {">> ELSE <<tag>>

\* tuple(...) of a repeated field: the elements, in order.
TupleOf(v) == <<"tuple">> \o Tail(v)

\* One iteration of parse_attr's loop: attrs after the entry e = [key, tag, val].
ParseAttrEntry(attrs, e) ==
    IF First7IsAtList(e.tag)
    THEN IF SplitSpace0(e.tag) \in {<<"at_list_float">>, <<"at_list_int32">>, <<"at_list_int64">>}
         THEN DictPut(attrs, e.key, TupleOf(e.val))
         ELSE attrs
    ELSE IF SplitColon0(e.tag) = <<"at_string">>
    THEN DictPut(attrs, e.key, e.val)
    ELSE IF SplitSpace0(e.tag) = <<"at_shape">>
    THEN DictPut(attrs, e.key, TupleOf(e.val))
    ELSE IF SplitColon0(e.tag) \in {<<"at_bool">>, <<"at_double">>, <<"at_float">>,
                                    <<"at_int32">>, <<"at_int64">>}
    THEN DictPut(attrs, e.key, e.val)
    ELSE attrs

RECURSIVE ParseAttrLoop(_, _, _)
ParseAttrLoop(attrs, attr, i) ==
    IF i > Len(attr) THEN attrs
    ELSE ParseAttrLoop(ParseAttrEntry(attrs, attr[i]), attr, i + 1)

parse_attr(attr) == ParseAttrLoop(EmptyDict, attr, 1)

\* Attribute maps: at most MaxAttrs entries, the keys distinct.
AttrEntries == {[key |-> k, tag |-> t, val |-> AttrVal(t)] : k \in AttrKeys, t \in AttrTags}
AttrMaps ==
    {a \in UNION {[1..n -> AttrEntries] : n \in 0..MaxAttrs} :
        \A i, j \in 1..Len(a) : i # j => a[i].key # a[j].key}

\* Nodes handed to the role predicates: the nodes of the graphs and two
\* variable_conf nodes.
ClassifyPool ==
    OpPool \cup UNION {Range(i) : i \in InputNodes} \cup UNION {Range(o) : o \in OutputNodes}
    \cup {Node("m.w", "variable_conf", "", <<>>, <<>>),
          Node("m.Input_0.w", "variable_conf", "", <<>>, <<>>)}

\* A Python list index: item counts from 0, a negative item from the end;
\* 0 when the list has no such position (IndexError).
ListIndex(n, item) ==
    IF item >= 0 /\ item < n THEN item + 1
    ELSE IF item < 0 /\ item >= -n THEN n + item + 1
    ELSE 0

None == [kind |-> "none"]
Value(v) == [kind |-> "value", value |-> v]
Raise(e) == [kind |-> "raise", value |-> e]

\* oneflow_input.__getitem__ with an int.
InputGetInt(ni, item) ==
    IF item > Len(ni.input_keys) - 1 THEN None
    ELSE IF ListIndex(Len(ni.input_keys), item) = 0 THEN Raise("IndexError")
    ELSE Value(ni.input_dict[ni.input_keys[ListIndex(Len(ni.input_keys), item)]])

\* oneflow_input.__getitem__ with a str.
InputGetStr(ni, item) ==
    IF item \notin Range(ni.input_keys) THEN None ELSE Value(ni.input_dict[item])

\* oneflow_input.keys()
InputKeys(ni) == ni.input_keys

\* oneflow_input.__setitem__ with an int: the value under the key at that
\* position is replaced; st = [ni, err].
InputSetInt(st, item, value) ==
    IF ListIndex(Len(st.ni.input_keys), item) = 0
    THEN [st EXCEPT !.err = "IndexError"]
    ELSE LET k == st.ni.input_keys[ListIndex(Len(st.ni.input_keys), item)] IN
         [st EXCEPT !.ni.input_dict = [x \in DOMAIN @ |-> IF x = k THEN value ELSE @[x]]]

\* oneflow_input.__setitem__ applied to each write in turn; the first write
\* that raises ends the sequence.
RECURSIVE InputWrites(_, _, _)
InputWrites(st, writes, i) ==
    IF i > Len(writes) \/ st.err # "" THEN st
    ELSE InputWrites(
             IF writes[i].by = "int" THEN InputSetInt(st, writes[i].int, writes[i].value)
             ELSE [st EXCEPT !.ni = InputSet(@, writes[i].str, writes[i].value)],
             writes, i + 1)

\* Values and tables of the direct calls.
vA == Var("_G0-input_0", 1)
vB == Var("m.w", 2)
vC == Call("relu", 3, <<vA>>)

HelperTable ==
    DictPut(DictPut(DictPut(EmptyDict, "_G0-input_0", vA), "m.w", vB), "G0-relu_1", vC)

HelperRefs == {rIn, rW, rWb, rY1}

WriteSet ==
    {[by |-> "str", str |-> k, int |-> 0, value |-> v] : k \in {"_G0-input_0", "m.w"}, v \in {vA, vB}}
    \cup
    {[by |-> "int", str |-> "", int |-> i, value |-> v] : i \in -1..1, v \in {vA, vB}}

\* The texts str(i) of the operands handed to the converters that inspect
\* them: an operand is [role, str], role its declared slot, str its text.
Texts ==
    {"%_G0-input_0", "%G0-Input_0", "free_var %G0-Input_0", "%m.bn.weight",
     "%m.bn.gamma", "%m.bn.bias", "%m.bn.running_mean", "%m.bn.running_var"}

\* kw in str(i)
StrHas(t, kw) ==
    CASE kw = "0-input_0" -> t \in {"%_G0-input_0"}
      [] kw = "weight"    -> t \in {"%m.bn.weight"}
      [] kw = "bias"      -> t \in {"%m.bn.bias"}
      [] kw = "mean"      -> t \in {"%m.bn.running_mean"}
      [] kw = "var"       -> t \in {"free_var %G0-Input_0", "%m.bn.running_var"}

\* len(str(i))
StrLen(t) ==
    CASE t = "%_G0-input_0"         -> 12
      [] t = "%G0-Input_0"          -> 11
      [] t = "free_var %G0-Input_0" -> 20
      [] t = "%m.bn.weight"         -> 12
      [] t = "%m.bn.gamma"          -> 11
      [] t = "%m.bn.bias"           -> 10
      [] t = "%m.bn.running_mean"   -> 18
      [] t = "%m.bn.running_var"    -> 17

Operand(role, t) == [role |-> role, str |-> t]

\* BatchNorm._impl_v1: the position of sorted_inputs an input is written to,
\* NoSlot when no branch of the if chain is taken.
NoSlot == 5
BatchNormSlot(t) ==
    IF StrHas(t, "0-input_0") THEN 0
    ELSE IF StrHas(t, "weight") THEN 1
    ELSE IF StrHas(t, "bias") THEN 2
    ELSE IF StrHas(t, "mean") THEN 3
    ELSE IF StrHas(t, "var") THEN 4
    ELSE NoSlot

\* The loop over the inputs; st = [ni, err], ni the copy being rewritten.
RECURSIVE BatchNormSort(_, _, _)
BatchNormSort(st, vals, i) ==
    IF i > Len(vals) \/ st.err # "" THEN st
    ELSE BatchNormSort(
             IF BatchNormSlot(vals[i].str) = NoSlot THEN st
             ELSE InputSetInt(st, BatchNormSlot(vals[i].str), vals[i]),
             vals, i + 1)

\* BatchNorm._impl_v1: the arguments handed to batch_norm, in order;
\* batch_norm has five required positional parameters and four optional ones.
BatchNorm(inputs) ==
    LET st == BatchNormSort([ni |-> inputs, err |-> ""], InputValues(inputs), 1)
    IN  IF st.err # "" THEN Raise(st.err)
        ELSE IF InputLen(st.ni) < 5 \/ InputLen(st.ni) > 9 THEN Raise("TypeError")
        ELSE Value(InputValues(st.ni))

\* The five inputs of a normalization node, by role, and the texts each can
\* have.
BNRoles == {"data", "scale", "bias", "mean", "var"}
BNTexts(role) ==
    CASE role = "data"  -> {"%_G0-input_0", "%G0-Input_0", "free_var %G0-Input_0"}
      [] role = "scale" -> {"%m.bn.weight", "%m.bn.gamma"}
      [] role = "bias"  -> {"%m.bn.bias"}
      [] role = "mean"  -> {"%m.bn.running_mean"}
      [] role = "var"   -> {"%m.bn.running_var"}

\* node_inputs of the node: one key per input, in declared order.
RECURSIVE InputsOf(_, _, _)
InputsOf(ni, operands, i) ==
    IF i > Len(operands) THEN ni
    ELSE InputsOf(InputSet(ni, operands[i].role, operands[i]), operands, i + 1)

\* A local variable that no branch has assigned.
Unbound == Operand("", "")

beta_names == {"weight", "bias", "mean", "var"}

\* BroadcastMath._impl_v1, the body of the first loop; st = [a, b].
BroadcastMathByName(st, i) ==
    IF (\E x \in beta_names : StrHas(i.str, x)) /\ ~StrHas(i.str, "0-input_0")
    THEN [st EXCEPT !.b = i] ELSE [st EXCEPT !.a = i]

\* The body of the loop for "divide": the longest text is input_a.
BroadcastMathDivide(st, i, longest) ==
    IF StrLen(i.str) = longest THEN [st EXCEPT !.a = i] ELSE [st EXCEPT !.b = i]

\* The body of the loop for "subtract": the longest text is input_b.
BroadcastMathSubtract(st, i, longest) ==
    IF StrLen(i.str) = longest THEN [st EXCEPT !.b = i] ELSE [st EXCEPT !.a = i]

\* BroadcastMath._impl_v1 for the class whose name is given: the operator and
\* its two arguments; an unassigned local makes the call take the inputs as
\* they come.
BroadcastMath(name, inputs) ==
    IF Len(inputs) # 2 THEN Raise("AssertionError")
    ELSE
    LET longest == Max(StrLen(inputs[1].str), StrLen(inputs[2].str))
        s1 == BroadcastMathByName(
                  BroadcastMathByName([a |-> Unbound, b |-> Unbound], inputs[1]), inputs[2])
        s2 == IF name = "divide"
              THEN BroadcastMathDivide(BroadcastMathDivide(s1, inputs[1], longest),
                                       inputs[2], longest)
              ELSE s1
        s3 == IF name = "subtract"
              THEN BroadcastMathSubtract(BroadcastMathSubtract(s2, inputs[1], longest),
                                         inputs[2], longest)
              ELSE s2
    IN  IF s3.a = Unbound \/ s3.b = Unbound
        THEN Value([op |-> name, a |-> inputs[1], b |-> inputs[2]])
        ELSE Value([op |-> name, a |-> s3.a, b |-> s3.b])

\* Add._impl_v1 (bias_add), the body of the loop.
AddByName(st, i) ==
    IF StrHas(i.str, "weight") /\ ~StrHas(i.str, "0-input_0")
    THEN [st EXCEPT !.b = i] ELSE [st EXCEPT !.a = i]

\* Add._impl_v1: add(add_a, reshape(add_b)); an unassigned local is not caught.
Add(inputs) ==
    IF Len(inputs) # 2 THEN Raise("AssertionError")
    ELSE
    LET s1 == AddByName(AddByName([a |-> Unbound, b |-> Unbound], inputs[1]), inputs[2])
    IN  IF s1.a = Unbound \/ s1.b = Unbound THEN Raise("UnboundLocalError")
        ELSE Value([op |-> "add", a |-> s1.a, b |-> s1.b])

\* The two operands of an elementwise node with the given texts.
TwoOperands(t1, t2) == <<Operand("lhs", t1), Operand("rhs", t2)>>

\* The direct calls of the universe.
HelperCalls ==
    {[fn |-> "get_pad_pair", input1d |-> i, kernel1d |-> k, stride1d |-> s, mode |-> m] :
        i \in 1..MaxExtent, k \in 1..MaxExtent, s \in 1..MaxExtent, m \in PadModes}
    \cup
    {[fn |-> "get_pad_pair", input1d |-> 32, kernel1d |-> 3, stride1d |-> 1, mode |-> m] :
        m \in PadModes}
    \cup
    {[fn |-> "autopad", shape |-> i, kernel |-> k, stride |-> s, dilation |-> d,
      deconv |-> dc, mode |-> m] :
        i \in 1..MaxExtent, k \in 1..MaxExtent, s \in 1..MaxExtent, d \in 1..2,
        dc \in BOOLEAN, m \in PadModes}
    \cup {[fn |-> "parse_attr", attr |-> a] : a \in AttrMaps}
    \cup {[fn |-> "classify", node |-> n] : n \in ClassifyPool}
    \cup {[fn |-> "collect_inputs", refs |-> r] :
              r \in UNION {[1..n -> HelperRefs] : n \in 0..MaxWrites}}
    \cup {[fn |-> "input_writes", writes |-> w] :
              w \in UNION {[1..n -> WriteSet] : n \in 0..MaxWrites}}
    \cup {[fn |-> "BatchNorm", inputs |-> [k \in 1..5 |-> Operand(p[k], f[p[k]])]] :
              p \in {q \in InjSeqs(BNRoles, 5) : Len(q) = 5},
              f \in {g \in [BNRoles -> Texts] : \A r \in BNRoles : g[r] \in BNTexts(r)}}
    \cup {[fn |-> "BroadcastMath", name |-> n, inputs |-> TwoOperands(t1, t2)] :
              n \in {"add", "multiply", "subtract", "divide"}, t1 \in Texts, t2 \in Texts}
    \cup {[fn |-> "Add", inputs |-> TwoOperands(t1, t2)] : t1 \in Texts, t2 \in Texts}

HelperInit ==
    /\ call \in HelperCalls
    /\ ret = NoRet
    /\ nodes = <<>>
    /\ opts = [freeze_params |-> TRUE, given |-> FALSE, user_input |-> <<>>]
    /\ pc = "helper"
    /\ idx = 1
    /\ _nodes = EmptyDict
    /\ _params = {}
    /\ _inputs = EmptyDict
    /\ _shape = {}
    /\ _input_path_2_name = [p \in {} |-> ""]
    /\ _output_path_2_name = [p \in {} |-> ""]
    /\ nid = 0
    /\ unsupported_ops = {}
    /\ outputs = NoValue
    /\ free_vars = <<>>
    /\ func = <<>>
    /\ err = NoErr
    /\ warned = {}
    /\ calls = <<>>

CallGetPadPair ==
    /\ call.fn = "get_pad_pair" /\ ret = NoRet
    /\ ret' = [kind |-> "value",
               value |-> get_pad_pair(call.input1d, call.kernel1d, call.stride1d, call.mode)]
    /\ UNCHANGED <<gvars, call>>

CallAutopad ==
    /\ call.fn = "autopad" /\ ret = NoRet
    /\ ret' = [kind |-> "value",
               value |-> autopad(call.shape, call.stride, call.kernel, call.dilation,
                                 call.deconv, call.mode)]
    /\ UNCHANGED <<gvars, call>>

CallParseAttr ==
    /\ call.fn = "parse_attr" /\ ret = NoRet
    /\ ret' = [kind |-> "value", value |-> parse_attr(call.attr)]
    /\ UNCHANGED <<gvars, call>>

\* The four role predicates applied to one node; the node is only read.
CallClassify ==
    /\ call.fn = "classify" /\ ret = NoRet
    /\ ret' = [kind |-> "value",
               value |-> [is_input_op  |-> is_input_op(call.node),
                          is_user_op   |-> is_user_op(call.node),
                          is_output_op |-> is_output_op(call.node),
                          is_param_op  |-> is_param_op(call.node)]]
    /\ UNCHANGED <<gvars, call>>

\* The loop of step 3 that fills node_inputs, on a table that binds every
\* name referred to.
CallCollectInputs ==
    /\ call.fn = "collect_inputs" /\ ret = NoRet
    /\ ret' = Value(CollectInputs(oneflow_input, HelperTable, call.refs, 1))
    /\ UNCHANGED <<gvars, call>>

\* Writes to one oneflow_input container, str keys and int positions mixed.
CallInputWrites ==
    /\ call.fn = "input_writes" /\ ret = NoRet
    /\ LET st == InputWrites([ni |-> oneflow_input, err |-> ""], call.writes, 1) IN
       ret' = IF st.err # "" THEN Raise(st.err) ELSE Value(st.ni)
    /\ UNCHANGED <<gvars, call>>

\* The normalization converter on the node_inputs of a node with five inputs.
CallBatchNorm ==
    /\ call.fn = "BatchNorm" /\ ret = NoRet
    /\ ret' = BatchNorm(InputsOf(oneflow_input, call.inputs, 1))
    /\ UNCHANGED <<gvars, call>>

\* broadcast_add, broadcast_mul, broadcast_sub, broadcast_div.
CallBroadcastMath ==
    /\ call.fn = "BroadcastMath" /\ ret = NoRet
    /\ ret' = BroadcastMath(call.name, call.inputs)
    /\ UNCHANGED <<gvars, call>>

\* bias_add.
CallAdd ==
    /\ call.fn = "Add" /\ ret = NoRet
    /\ ret' = Add(call.inputs)
    /\ UNCHANGED <<gvars, call>>

HelperNext ==
    \/ CallGetPadPair \/ CallAutopad \/ CallParseAttr \/ CallClassify
    \/ CallCollectInputs \/ CallInputWrites
    \/ CallBatchNorm \/ CallBroadcastMath \/ CallAdd

HelperSpec == HelperInit /\ [][HelperNext]_vars

-----------------------------------------------------------------------------
(* Properties *)

Finished == pc \in {"done", "failed"}

UserOps(g) == {i \in 1..Len(g) : is_user_op(g[i])}

\* The op-type names of the graph that are in neither the converter map nor
\* the identity list.
UnsupportedIn(g) ==
    {g[i].op : i \in {j \in UserOps(g) : g[j].op \notin convert_map \cup _identity_list}}

\* The run was rejected by the checks on user_input that precede step 2.
RejectedUserInput ==
    pc = "failed" /\ (err.kind = "ValueError" \/ err = Err("KeyError", {"user_input"}))

\* The run ended while the shapes were collected from repr(graph), before a
\* OneflowGraph existed.
EndedCollectingShapes == pc = "failed" /\ err.kind = "AttributeError"

\* C1: when the graph uses op-type names that are in neither the converter
\* map nor the identity list, a run that gets to the coverage check ends with
\* the OpNotImplemented error whose names are exactly that set, and with no
\* other outcome; the error is raised only in that case.
C1_UnsupportedOpsAllReported ==
    /\ (Finished /\ UnsupportedIn(nodes) # {} /\ ~RejectedUserInput
            /\ ~EndedCollectingShapes)
           => (pc = "failed" /\ err = Err("OpNotImplemented", UnsupportedIn(nodes)))
    /\ (pc = "failed" /\ err.kind = "OpNotImplemented")
           => (err.names = UnsupportedIn(nodes) /\ err.names # {})

C1_Witness ==
    pc = "failed" /\ err.kind = "OpNotImplemented" /\ err.names = {"foo", "bar"}

PhaseRank(p) ==
    CASE p = "entry" -> 0
      [] p = "ctor"  -> 1
      [] p = "step1" -> 1
      [] p = "step2" -> 2
      [] p = "step3" -> 3
      [] p = "step5" -> 5
      [] p = "step6" -> 6
      [] p = "done"  -> 7
      [] p = "failed" -> 8

\* C2: the phases follow one another in the order collect inputs, validate
\* coverage, convert, collect outputs, free variables, build, never going
\* back; a converter is invoked or an operator output bound only in the
\* convert phase, after the scan has covered a graph with no unsupported
\* operator; a run that failed validation has invoked no converter.
C2_PhasesInOrder ==
    [][ /\ PhaseRank(pc') >= PhaseRank(pc)
        /\ (pc = "step3" /\ pc' # "failed") => (pc' \in {"step3", "step5"})
        /\ (calls' # calls \/ \E n \in Range(_nodes'.keys) :
                                  /\ _nodes'.val[n].k = "call"
                                  /\ (~DictHas(_nodes, n) \/ _nodes.val[n] # _nodes'.val[n]))
              => (pc = "step3" /\ UnsupportedIn(nodes) = {})
        /\ (err'.kind = "OpNotImplemented") => (calls' = <<>>)
      ]_vars

C2_Witness == pc = "done" /\ Len(calls) = 2 /\ outputs.k = "call"

-----------------------------------------------------------------------------
(* Input resolution and output recording *)

ParamPaths == {ParamPath(l) : l \in ParamLayers}

\* The node the step 3 loop is about to convert.
Visiting ==
    /\ pc = "step3" /\ idx <= Len(nodes)
    /\ is_user_op(nodes[idx]) /\ ~DictHas(_inputs, nodes[idx].name)

OutPaths(node) == {PathOf(node.outs[i]) : i \in 1..Len(node.outs)}

\* Output paths of the operators converted so far.
ProducedPaths ==
    UNION {OutPaths(nodes[i]) : i \in {j \in UserOps(nodes) : nodes[j].name \in Range(calls)}}

\* A graph input node of that name, or a user input of that name.
DeclaredInputName(n) ==
    \/ \E i \in 1..Len(nodes) : is_input_op(nodes[i]) /\ nodes[i].name = n
    \/ ~opts.freeze_params /\ n \in Range(opts.user_input)

\* The name refers to a layer of the checkpoint.
DeclaredParamName(n) == StripM(n) \in ParamLayers

\* The reference's path is no parameter's, no converted operator's output,
\* and its name is no declared graph input.
Unresolved(ref) ==
    /\ PathOf(ref) \notin ParamPaths
    /\ PathOf(ref) \notin ProducedPaths
    /\ ~DeclaredInputName(SplitName(ref))

\* C3 (as claimed): when the operator being visited has an input reference
\* whose path is neither a parameter's path, nor the output path of an
\* operator converted earlier, nor a declared graph input, the visit ends the
\* run with an error that names the reference; the operator's converter is
\* not invoked and no symbol is bound for the reference.
C3_UnboundReferenceAborts ==
    [][ \A r \in (IF Visiting THEN Range(nodes[idx].ins) ELSE {}) :
            Unresolved(r) =>
                /\ pc' = "failed"
                /\ err'.names \cap {rr.n : rr \in {q \in Range(nodes[idx].ins) : Unresolved(q)}} # {}
                /\ calls' = calls
                /\ ~DictHas(_nodes, r.n) => ~DictHas(_nodes', r.n)
      ]_vars

\* The path is produced by an operator placed after position i and by none
\* placed before it.
ProducedOnlyLater(ref, i) ==
    /\ PathOf(ref) \notin ParamPaths
    /\ ~DeclaredInputName(SplitName(ref))
    /\ \E j \in UserOps(nodes) : j > i /\ PathOf(ref) \in OutPaths(nodes[j])
    /\ ~\E j \in UserOps(nodes) : j < i /\ PathOf(ref) \in OutPaths(nodes[j])

\* C4 (as claimed): converters are invoked in node declaration order, and the
\* visit of an operator one of whose inputs is produced only by an operator
\* placed later ends the run.
C4_ConsumerBeforeProducerFails ==
    [][ /\ calls' # calls =>
              (pc = "step3" /\ calls' = Append(calls, nodes[idx].name)
               /\ \A c \in Range(calls) : \E j \in 1..(idx - 1) : nodes[j].name = c)
        /\ (Visiting /\ \E r \in Range(nodes[idx].ins) : ProducedOnlyLater(r, idx))
              => pc' = "failed"
      ]_vars

\* The names the visited node's declared outputs are known under.
OutputNamesOf(node) ==
    {_input_path_2_name[p] : p \in OutPaths(node) \cap DOMAIN _input_path_2_name}
    \cup {_output_path_2_name[p] : p \in OutPaths(node) \cap DOMAIN _output_path_2_name}

\* C5 (as claimed): when a converter has been invoked for a node that declares
\* a number of output slots other than the number of values produced (one,
\* for every converter of the model), the run ends with the output-count
\* error, whose message has the op-type and the node name, and none of the
\* node's outputs is bound.
C5_OutputCountMismatchAborts ==
    [][ (Visiting /\ calls' # calls /\ Len(nodes[idx].outs) # 1) =>
            /\ pc' = "failed"
            /\ err'.kind = "AssertionError"
            /\ {nodes[idx].op, nodes[idx].name} \subseteq err'.names
            /\ \A n \in OutputNamesOf(nodes[idx]) :
                   IF DictHas(_nodes, n)
                   THEN DictHas(_nodes', n) /\ _nodes'.val[n] = _nodes.val[n]
                   ELSE ~DictHas(_nodes', n)
      ]_vars

\* A Relay expression without the creation numbers: what it computes.
RECURSIVE Structure(_)
Structure(e) ==
    [k |-> e.k, name |-> e.name, args |-> [i \in 1..Len(e.args) |-> Structure(e.args[i])]]

\* C6 (as claimed): a name of the symbol table, once bound, is never bound to
\* a different expression by a later step.
C6_SymbolTableAppendOnly ==
    [][ \A n \in Range(_nodes.keys) :
            DictHas(_nodes', n) /\ Structure(_nodes'.val[n]) = Structure(_nodes.val[n]) ]_vars

\* C7 (as claimed): in the pre-pass, a reference whose path is already in the
\* path table under another name ends the run with a duplicate-binding error
\* and the entry stays; a reference that repeats the entry changes nothing.
C7_DuplicateBindingRejected ==
    [][ (pc = "ctor" /\ idx <= Len(nodes) /\ is_user_op(nodes[idx])) =>
            \A r \in Range(nodes[idx].ins) :
                PathOf(r) \in DOMAIN _input_path_2_name =>
                    /\ PathOf(r) \in DOMAIN _input_path_2_name'
                    /\ _input_path_2_name'[PathOf(r)] = _input_path_2_name[PathOf(r)]
                    /\ IF SplitName(r) # _input_path_2_name[PathOf(r)]
                       THEN pc' = "failed" /\ err'.kind = "DuplicateBinding"
                       ELSE pc' = "ctor"
      ]_vars

-----------------------------------------------------------------------------
(* The assembled function *)

\* The parameters of the function: the values of self._sort_inputs.
FuncParams == [i \in 1..Len(func) |-> _inputs.val[func[i]]]

\* C8: in a run that returns a function, every free variable of the output
\* expression is one of the function's parameters, and is the variable of a
\* declared graph input or of a parameter of the checkpoint.
C8_FreeVarsAreDeclaredInputs ==
    pc = "done" =>
        \A v \in Range(FreeVars(outputs)) :
            /\ v \in Range(FuncParams)
            /\ DeclaredInputName(v.name) \/ DeclaredParamName(v.name)

C8_Witness ==
    /\ pc = "done"
    /\ \E v, w \in Range(FreeVars(outputs)) :
           DeclaredInputName(v.name) /\ DeclaredParamName(w.name)

\* C10 (as claimed): the input list of the assembled function is a
\* permutation of the collected inputs; when a collected input is marked as
\* primary (its name contains 'Input_0') the one collected first is at
\* position 0, and the other inputs are in the order in which they were added
\* to the collected inputs.
C10_MarkedInputFirst ==
    pc = "done" =>
        LET keys   == _inputs.keys
            Pos(n) == CHOOSE i \in 1..Len(keys) : keys[i] = n
            marked == {i \in 1..Len(keys) : HasInput0(keys[i])}
        IN  /\ Len(func) = Len(keys)
            /\ Range(func) = Range(keys)
            /\ \A i \in marked : (\A j \in marked : i <= j) => func[1] = keys[i]
            /\ \A i, j \in 2..Len(func) : i < j => Pos(func[i]) < Pos(func[j])

-----------------------------------------------------------------------------
(* The output of the run *)

\* Positions of the graph-output nodes whose name is bound.
BoundOutputs == {i \in 1..Len(nodes) : is_output_op(nodes[i]) /\ DictHas(_nodes, nodes[i].name)}

\* C11: once step 4 has run, the output is the bound value itself when exactly
\* one graph-output node is bound, and otherwise (none, or two or more) a tuple
\* of the bound values of the graph-output nodes in node declaration order.
C11_SingleValueOrOrderedTuple ==
    pc \in {"step5", "step6", "done"} =>
        IF Cardinality(BoundOutputs) = 1
        THEN \A i \in BoundOutputs : outputs = _nodes.val[nodes[i].name]
        ELSE /\ outputs.k = "tuple"
             /\ Len(outputs.args) = Cardinality(BoundOutputs)
             /\ \A i \in BoundOutputs :
                    outputs.args[Cardinality({j \in BoundOutputs : j < i}) + 1]
                        = _nodes.val[nodes[i].name]

\* A finished run whose two graph-output nodes are bound to different values.
C11_Witness ==
    /\ pc = "done"
    /\ Cardinality(BoundOutputs) = 2
    /\ outputs.k = "tuple"
    /\ Structure(outputs.args[1]) # Structure(outputs.args[2])

\* The values the run returns: the fields of the tuple, or the single value.
OutputFields == IF outputs.k = "tuple" THEN Range(outputs.args) ELSE {outputs}

\* The user ops that declare the path p as an output.
ProducersOf(p) ==
    {j \in 1..Len(nodes) : is_user_op(nodes[j]) /\ \E r \in Range(nodes[j].outs) : PathOf(r) = p}

\* v is what the converter of the node builds: a call of the node's operator
\* (add_n: the last add of the fold) on as many arguments as the node has inputs.
ProducedBy(v, node) ==
    /\ v.k = "call"
    /\ v.name = (IF node.op = "add_n" THEN "add" ELSE node.op)
    /\ node.op # "add_n" => Len(v.args) = Len(node.ins)

\* C12 (as claimed): in a run that returns a function, every graph-output node
\* whose path is the declared output path of a converted operator (here: of
\* exactly one operator of the graph) has that operator's value among the
\* values returned, also when another operator consumes the same path.
C12_DeclaredOutputsDelivered ==
    pc = "done" =>
        \A i \in 1..Len(nodes) : is_output_op(nodes[i]) =>
            \A j \in ProducersOf(PathOf(nodes[i].ins[1])) :
                (ProducersOf(PathOf(nodes[i].ins[1])) = {j} /\ nodes[j].name \in Range(calls))
                    => \E v \in OutputFields : ProducedBy(v, nodes[j])

-----------------------------------------------------------------------------
(* Padding *)

\* The total padding of one axis.
TotalPad(input, kernel, stride) ==
    IF input % stride = 0 THEN Max(kernel - stride, 0) ELSE Max(kernel - (input % stride), 0)

Returned(fn) == ret.kind = "value" /\ call.fn = fn

\* C13 (as claimed): with total the padding of the extent, get_pad_pair
\* returns (total // 2, total - total // 2) for mode "same_upper" and the
\* swapped pair for mode "same_lower", so that before + after = total,
\* before <= after for same_upper and after <= before for same_lower.
C13_SamePaddingSplit ==
    (Returned("get_pad_pair") /\ call.mode \in {"same_upper", "same_lower"}) =>
        LET total  == TotalPad(call.input1d, call.kernel1d, call.stride1d)
            before == total \div 2
        IN  /\ ret.value[1] + ret.value[2] = total
            /\ IF call.mode = "same_upper"
               THEN ret.value = <<before, total - before>> /\ ret.value[1] <= ret.value[2]
               ELSE ret.value = <<total - before, before>> /\ ret.value[2] <= ret.value[1]

\* C14 (as claimed): for mode "valid" the padding is zero before and after.
C14_ValidPadsZero ==
    ((Returned("get_pad_pair") \/ Returned("autopad")) /\ call.mode \in {"valid", "VALID"})
        => ret.value = <<0, 0>>

\* C15 (as claimed): a mode outside valid, same_upper and same_lower makes the
\* padding computation fail; no pair is returned for it.
C15_UnknownModeRejected ==
    (call.fn \in {"get_pad_pair", "autopad"} /\ Upper(call.mode) \notin {"VALID", "SAME_UPPER", "SAME_LOWER"})
        => ret.kind # "value"

-----------------------------------------------------------------------------
(* Attributes *)

KnownTags ==
    {"at_bool", "at_int32", "at_int64", "at_float", "at_double", "at_string", "at_shape",
     "at_list_float", "at_list_int32", "at_list_int64"}

\* C16 (as claimed): parse_attr maps every entry: when every tag is known the
\* result has every key of the input, and when some tag is not known the call
\* fails, with an error that names the key, instead of returning a map.
C16_EveryAttributeMapped ==
    (call.fn = "parse_attr" /\ ret.kind # "none") =>
        LET unknown == {i \in 1..Len(call.attr) : call.attr[i].tag \notin KnownTags} IN
        IF unknown = {}
        THEN /\ ret.kind = "value"
             /\ \A i \in 1..Len(call.attr) : DictHas(ret.value, call.attr[i].key)
        ELSE /\ ret.kind = "error"
             /\ \E i \in unknown : call.attr[i].key \in ret.names

-----------------------------------------------------------------------------
(* Outputs without a known path; declared inputs *)

\* Output paths of the node that are in neither path table.
UnknownOutPaths(node) ==
    OutPaths(node) \ (DOMAIN _input_path_2_name \cup DOMAIN _output_path_2_name)

\* C17 (as claimed): when the converter is invoked for an operator one of whose
\* declared output paths is in neither path table, the path is warned about
\* and left out, and the run is not ended by it: an operator that declares one
\* output, as many as its converter produces, does not fail the output count.
C17_UnknownOutputPathOnlyWarns ==
    [][ (Visiting /\ calls' # calls /\ UnknownOutPaths(nodes[idx]) # {}) =>
            /\ UnknownOutPaths(nodes[idx]) \subseteq warned'
            /\ Len(nodes[idx].outs) = 1 => ~(pc' = "failed" /\ err'.kind = "AssertionError")
      ]_vars

\* C18 (as claimed): after step 1 and before the first operator is converted,
\* every graph-input node's name and every parameter of the checkpoint is
\* bound to a variable in self._nodes (stated for the graphs that have a
\* graph-input node and an operator).
C18_DeclaredInputsAllBound ==
    (/\ pc \in {"step2", "step3"} /\ calls = <<>>
     /\ UserOps(nodes) # {} /\ \E i \in 1..Len(nodes) : is_input_op(nodes[i])) =>
        /\ \A i \in 1..Len(nodes) : is_input_op(nodes[i]) => DictHas(_nodes, nodes[i].name)
        /\ \A l \in ParamLayers :
               \E n \in Range(_nodes.keys) : StripM(n) = l /\ _nodes.val[n].k = "var"

-----------------------------------------------------------------------------
(* Node classification *)

Roles == {"is_input_op", "is_user_op", "is_output_op", "is_param_op"}

\* C19: for a node whose discriminant is one of input_conf, variable_conf,
\* user_conf and output_conf, exactly one of the four role predicates holds;
\* the answers are those of every node with the same discriminant; the call
\* returns (it does not raise) and leaves the node as it was.
C19_ClassificationTotalExclusive ==
    [][ (call.fn = "classify" /\ ret.kind = "none") =>
            /\ call' = call
            /\ ret'.kind = "value"
            /\ Cardinality({r \in Roles : ret'.value[r]}) = 1
            /\ \A m \in ClassifyPool : m.kind = call.node.kind =>
                   ret'.value = [is_input_op  |-> is_input_op(m),
                                 is_user_op   |-> is_user_op(m),
                                 is_output_op |-> is_output_op(m),
                                 is_param_op  |-> is_param_op(m)]
      ]_vars

\* A variable_conf node has been classified as a parameter.
C19_Witness ==
    /\ Returned("classify")
    /\ call.node.kind = "variable_conf"
    /\ ret.value.is_param_op

-----------------------------------------------------------------------------
(* user_input *)

\* C20: with freeze_params false the run gets past step 1 only if user_input
\* was given and every name in it contains 'Input_0'; without user_input it
\* ends with ValueError, with a name lacking 'Input_0' a run that gets to
\* step 1 ends with KeyError, in both cases before step 2 has looked at an
\* operator and before any converter is invoked; every user input accepted is bound in self._nodes and is in
\* self._inputs, and is a parameter of the function the run returns.
C20_UserInputGate ==
    ~opts.freeze_params =>
        LET bad == {i \in 1..Len(opts.user_input) : ~HasInput0(opts.user_input[i])} IN
        /\ pc \in {"step2", "step3", "step5", "step6", "done"} => (opts.given /\ bad = {})
        /\ (~opts.given /\ pc # "entry") =>
               (pc = "failed" /\ err.kind = "ValueError")
        /\ (opts.given /\ bad # {} /\ Finished /\ ~EndedCollectingShapes) =>
               (pc = "failed" /\ err = Err("KeyError", {"user_input"}))
        /\ (~opts.given \/ bad # {}) => (calls = <<>> /\ unsupported_ops = {})
        /\ pc \in {"step2", "step3", "step5", "step6", "done"} =>
               \A n \in Range(opts.user_input) :
                   /\ DictHas(_nodes, n) /\ DictHas(_inputs, n)
                   /\ _inputs.val[n].k = "var" /\ _inputs.val[n].name = n
        /\ pc = "done" =>
               \A n \in Range(opts.user_input) : n \in Range(func)

\* A run with a user input has returned a function.
C20_Witness ==
    /\ pc = "done"
    /\ ~opts.freeze_params
    /\ opts.user_input # <<>>
    /\ opts.user_input[1] \in Range(func)

-----------------------------------------------------------------------------
(* The name an output is recorded under *)

\* Input paths of the user ops of the graph.
ConsumedPaths ==
    UNION {{PathOf(nodes[j].ins[i]) : i \in 1..Len(nodes[j].ins)} : j \in UserOps(nodes)}

\* C21: from step 2 on the consumers' path table has every input path of
\* every operator and no longer changes; when the visit of an operator ends
\* with its outputs recorded, every declared output path that is in that table
\* has the value just produced bound under the name the table gives, and the
\* name the graph-output table gives for the path, if another, is not bound
\* by the visit.
C21_ConsumerNamePreferred ==
    [][ /\ pc \in {"step2", "step3"} =>
            /\ ConsumedPaths \subseteq DOMAIN _input_path_2_name
            /\ _input_path_2_name' = _input_path_2_name
        /\ (Visiting /\ idx' = idx + 1) =>
            \A p \in OutPaths(nodes[idx]) \cap DOMAIN _input_path_2_name :
                LET n == _input_path_2_name[p] IN
                /\ DictHas(_nodes', n)
                /\ _nodes'.val[n].k = "call" /\ _nodes'.val[n].id = nid'
                /\ \A q \in {p} \cap DOMAIN _output_path_2_name :
                       LET o == _output_path_2_name[q] IN
                       o # n => /\ DictHas(_nodes', o) = DictHas(_nodes, o)
                                /\ DictHas(_nodes, o) => _nodes'.val[o] = _nodes.val[o]
      ]_vars

\* An output whose path is in both tables has been recorded under the
\* consumers' name, and the graph-output node's name is not bound.
C21_Witness ==
    /\ pc = "step3"
    /\ \E p \in DOMAIN _input_path_2_name \cap DOMAIN _output_path_2_name :
           /\ DictHas(_nodes, _input_path_2_name[p])
           /\ _nodes.val[_input_path_2_name[p]].k = "call"
           /\ ~DictHas(_nodes, _output_path_2_name[p])

-----------------------------------------------------------------------------
(* Converter lookup *)

\* C27: in a run that got past step 2, every op-type name _convert_operator
\* is called with is in the identity list or in the converter map, and the
\* call never ends in the 'not implemented' branch (the identity list is
\* looked up first; it is empty, so no name is in both).
C27_ConverterLookupSucceeds ==
    [][ (Visiting /\ calls' # calls) =>
            /\ nodes[idx].op \in _identity_list \cup convert_map
            /\ err'.kind # "NotImplementedError"
            /\ _convert_operator(nodes[idx].op, oneflow_input, nid).err.kind
                   # "NotImplementedError"
      ]_vars

\* Two operators have been handed to their converters.
C27_Witness ==
    /\ pc \in {"step3", "step5", "step6", "done"}
    /\ Len(calls) = 2
    /\ \A i \in UserOps(nodes) : nodes[i].op \in convert_map

-----------------------------------------------------------------------------
(* Output extent under same padding *)

\* C25: for mode same_upper or same_lower (either spelling), the pair that
\* get_pad_pair returns gives the output extent
\* (input + before + after - kernel) // stride + 1 = ceil(input / stride);
\* for stride 1 that is the input extent, and kernel 3 on input 32 gives the
\* padding (1, 1) and the extent 32.
C25_SamePaddingOutputExtent ==
    (Returned("get_pad_pair") /\ Upper(call.mode) \in {"SAME_UPPER", "SAME_LOWER"}) =>
        LET extent == (call.input1d + ret.value[1] + ret.value[2] - call.kernel1d)
                          \div call.stride1d + 1
        IN  /\ ret.value[1] >= 0 /\ ret.value[2] >= 0
            /\ extent = (call.input1d + call.stride1d - 1) \div call.stride1d
            /\ call.stride1d = 1 => extent = call.input1d
            /\ (call.input1d = 32 /\ call.kernel1d = 3 /\ call.stride1d = 1) =>
                   (ret.value = <<1, 1>> /\ extent = 32)

\* The call of the spec's scenario has returned.
C25_Witness ==
    /\ Returned("get_pad_pair")
    /\ call.input1d = 32 /\ call.kernel1d = 3 /\ call.stride1d = 1
    /\ call.mode = "SAME_UPPER"
    /\ ret.value = <<1, 1>>


-----------------------------------------------------------------------------
\* C26: node_inputs has one entry per reference of the node, in the order of
\* the references, a name referred to twice counted twice; each entry is the
\* value the table binds to the reference's name; and on a container reached
\* by any writes, self[i] is the value stored under keys()[i]: a position
\* past the end reads None, a position before the start raises as keys()[i]
\* does.
C26_InputSequenceAndReadsAgree ==
    /\ Returned("collect_inputs") =>
         LET ni   == ret.value
             vals == InputValues(ni)
         IN  /\ Len(vals) = Len(call.refs)
             /\ InputLen(ni) = Len(call.refs)
             /\ \A i \in 1..Len(call.refs) :
                  /\ i <= Len(vals)
                  /\ InputKeys(ni)[i] = SplitName(call.refs[i])
                  /\ vals[i] = HelperTable.val[SplitName(call.refs[i])]
                  /\ InputGetInt(ni, i - 1) = Value(vals[i])
    /\ Returned("input_writes") =>
         LET ni == ret.value
             n  == Len(InputKeys(ni))
         IN  \A i \in (0 - MaxWrites - 1)..(MaxWrites + 1) :
               IF i >= n THEN InputGetInt(ni, i) = None
               ELSE IF ListIndex(n, i) = 0 THEN InputGetInt(ni, i) = Raise("IndexError")
               ELSE /\ InputGetInt(ni, i) = InputGetStr(ni, InputKeys(ni)[ListIndex(n, i)])
                    /\ InputGetInt(ni, i) = Value(ni.input_dict[InputKeys(ni)[ListIndex(n, i)]])

\* A node that refers to the same name twice, with another reference between.
C26_Witness ==
    /\ Returned("collect_inputs")
    /\ Len(call.refs) = 3
    /\ SplitName(call.refs[1]) = SplitName(call.refs[3])
    /\ SplitName(call.refs[1]) # SplitName(call.refs[2])
    /\ InputLen(ret.value) = 3


-----------------------------------------------------------------------------
CanonicalOrder == <<"data", "scale", "bias", "mean", "var">>

\* C23: whatever the order in which the node declares its five inputs and
\* whatever their texts, batch_norm receives the declared inputs in the order
\* data, scale, bias, running mean, running variance, each of them once.
C23_BatchNormCanonicalOrder ==
    (call.fn = "BatchNorm" /\ ret # NoRet)
    => /\ ret.kind = "value"
       /\ Len(ret.value) = 5
       /\ \A k \in 1..5 :
            /\ ret.value[k].role = CanonicalOrder[k]
            /\ ret.value[k] \in Range(call.inputs)

\* What a call of an elementwise converter did with its operands: the slots
\* of the left and the right argument, or the error raised.
Assignment(r) ==
    IF r.kind = "value" THEN <<r.value.a.role, r.value.b.role>> ELSE <<r.kind, r.value>>

\* C24: the slots that become the left and the right argument of add,
\* multiply, subtract and divide are the same for every text the two operands
\* can have.
C24_OperandsByRoleOnly ==
    /\ (call.fn = "BroadcastMath" /\ ret # NoRet)
       => \A t1, t2 \in Texts :
            Assignment(BroadcastMath(call.name, TwoOperands(t1, t2))) = Assignment(ret)
    /\ (call.fn = "Add" /\ ret # NoRet)
       => \A t1, t2 \in Texts : Assignment(Add(TwoOperands(t1, t2))) = Assignment(ret)

====
